---------------------------- MODULE Spec2Model ----------------------------
(***************************************************************************)
(* Model of AtxSacMakeTables.cpp: the DataFrameBuilder that ingests intake *)
(* and outcome rows into a registry of animals (AddAnimal/UpdateIfNewer),  *)
(* sorts each animal's events and pairs them into impound records          *)
(* (BuildImpoundTable/MergeAnimal), and projects the animal table.         *)
(*                                                                         *)
(* A Datetime is a number of ticks since the start of the first year; its  *)
(* calendar fields are derived from it as gmtime derives them, on a        *)
(* calendar of MonthsPerYear months of DaysPerMonth days of TicksPerDay    *)
(* ticks.  Input rows always carry a timestamp (spec section 6), so no     *)
(* row has a missing date; NA_REAL only occurs in placeholder events.      *)
(***************************************************************************)
EXTENDS Integers, Sequences, FiniteSets, TLC

VARIABLES
    build,                  \* which Build* entry point is running
    pc,                     \* position of the builder inside that entry point
    rows,                   \* the input rows read so far: table, id and dates
    candidate,              \* the Animal the running Ingest* loop built last
    mAnimalMap,             \* DataFrameBuilder::mAnimalMap: animal id -> Animal
    accepted,               \* per animal id, the candidate timestamps accepted
    mImpoundTable,          \* DataFrameBuilder::mImpoundTable, as a sequence of rows
    mAnimalTable,           \* DataFrameBuilder::mAnimalTable, as a sequence of rows
    rcout,                  \* the warnings printed on Rcout, in order
    visited,                \* animal ids BuildImpoundTable's iterator has passed
    animal,                 \* MergeAnimal: id of the animal being merged (0: none)
    numIntakesRemaining,    \* MergeAnimal local
    numOutcomesRemaining,   \* MergeAnimal local
    nextIntake,             \* MergeAnimal local
    nextOutcome             \* MergeAnimal local

vars == <<build, pc, rows, candidate, mAnimalMap, accepted, mImpoundTable, mAnimalTable,
          rcout, visited, animal, numIntakesRemaining, numOutcomesRemaining,
          nextIntake, nextOutcome>>

mergeLocals == <<animal, numIntakesRemaining, numOutcomesRemaining, nextIntake, nextOutcome>>

-----------------------------------------------------------------------------
(* Bounds of the model. *)

MaxEvents == 2          \* rows per ATX input table in the pairing specification
MaxImpounds == 1        \* rows of the SAC input table in the pairing specification
MaxMergeRows == 2       \* rows in total in the registry specification
MaxLeftoverIntakes == 1     \* intake rows in the leftover specification
MaxLeftoverOutcomes == 3    \* outcome rows in the leftover specification
MaxKeyRows == 2         \* rows per input table in the two-animal specification
TicksPerDay == 2        \* calendar: ticks in a day
DaysPerMonth == 2       \* calendar: days in a month
MonthsPerYear == 2      \* calendar: months in a year

-----------------------------------------------------------------------------
(* Values. *)

NaString == "NA"

NA_REAL == -1

NoAnimal == 0

WarnUnmatchedIntake == "Intake not matched with outcome."

WarnOutcomeOutOfOrder == "Outcome out of order. Discarded."

WarnExtraOutcomes == "Extra outcomes remaining at end."

AttrNames == {"mKind", "mGender", "mName", "mColor1", "mColor2", "mBreed1", "mBreed2"}

(* Datetime::getYear / getMonth / getDay on the model calendar. *)
getDay(dateTime) == ((dateTime \div TicksPerDay) % DaysPerMonth) + 1

getMonth(dateTime) == ((dateTime \div (TicksPerDay * DaysPerMonth)) % MonthsPerYear) + 1

getYear(dateTime) == dateTime \div (TicksPerDay * DaysPerMonth * MonthsPerYear)

(* CompareByDay without the comparison of the months. *)
CompareByDay_NoMonth(dateTime1, dateTime2) ==
    IF getYear(dateTime1) < getYear(dateTime2) THEN "EarlierDay"
    ELSE IF getYear(dateTime1) > getYear(dateTime2) THEN "LaterDay"
    ELSE IF getDay(dateTime1) < getDay(dateTime2) THEN "EarlierDay"
    ELSE IF getDay(dateTime1) > getDay(dateTime2) THEN "LaterDay"
    ELSE "SameDay"

(* CompareByDay that compares the instants, not the calendar days. *)
CompareByDay_Instant(dateTime1, dateTime2) ==
    IF dateTime1 < dateTime2 THEN "EarlierDay"
    ELSE IF dateTime1 > dateTime2 THEN "LaterDay"
    ELSE "SameDay"

CompareByDay(dateTime1, dateTime2) ==
    IF getYear(dateTime1) < getYear(dateTime2) THEN "EarlierDay"
    ELSE IF getYear(dateTime1) > getYear(dateTime2) THEN "LaterDay"
    ELSE IF getMonth(dateTime1) < getMonth(dateTime2) THEN "EarlierDay"
    ELSE IF getMonth(dateTime1) > getMonth(dateTime2) THEN "LaterDay"
    ELSE IF getDay(dateTime1) < getDay(dateTime2) THEN "EarlierDay"
    ELSE IF getDay(dateTime1) > getDay(dateTime2) THEN "LaterDay"
    ELSE "SameDay"

(* Intake::Intake(): the all-NA placeholder.  mIntakeType stands for the    *)
(* descriptive fields of the event (type, subtype, condition, ...).         *)
NullIntake == [mIntakeDate |-> NA_REAL, mIntakeType |-> NaString]

(* Outcome::Outcome(): the all-NA placeholder. *)
NullOutcome == [mOutcomeDate |-> NA_REAL, mOutcomeType |-> NaString]

(* The intake and outcome objects an Ingest* loop makes from row number n. *)
MakeIntake(intakeDate, n) == [mIntakeDate |-> intakeDate, mIntakeType |-> "i" \o ToString(n)]

MakeOutcome(outcomeDate, n) == [mOutcomeDate |-> outcomeDate, mOutcomeType |-> "o" \o ToString(n)]

(* Animal::Animal(animalId, dateTime). *)
NewAnimal(animalId, dateTime) ==
    [mAnimalId |-> animalId, mKind |-> NaString, mGender |-> NaString,
     mName |-> NaString, mColor1 |-> NaString, mColor2 |-> NaString,
     mBreed1 |-> NaString, mBreed2 |-> NaString, mDateTime |-> dateTime,
     mIntakeList |-> <<>>, mOutcomeList |-> <<>>]

(* The candidate animal an Ingest* loop builds from a row: the constructor, *)
(* then the setters, with attrs the row's value for each attribute.        *)
MakeCandidate(animalId, dateTime, attrs) ==
    [NewAnimal(animalId, dateTime) EXCEPT
        !.mKind = attrs.mKind, !.mGender = attrs.mGender, !.mName = attrs.mName,
        !.mColor1 = attrs.mColor1, !.mColor2 = attrs.mColor2,
        !.mBreed1 = attrs.mBreed1, !.mBreed2 = attrs.mBreed2]

-----------------------------------------------------------------------------
(* Animal and the registry. *)

(* UpdateIfNewer that also merges a candidate with an equal timestamp. *)
UpdateIfNewer_NotStrict(self, other) ==
    IF other.mDateTime < self.mDateTime THEN self
    ELSE [self EXCEPT
            !.mName = IF other.mName # NaString THEN other.mName ELSE @,
            !.mGender = IF other.mGender # NaString THEN other.mGender ELSE @,
            !.mColor1 = IF other.mColor1 # NaString THEN other.mColor1 ELSE @,
            !.mColor2 = IF other.mColor2 # NaString THEN other.mColor2 ELSE @,
            !.mBreed1 = IF other.mBreed1 # NaString THEN other.mBreed1 ELSE @,
            !.mBreed2 = IF other.mBreed2 # NaString THEN other.mBreed2 ELSE @,
            !.mDateTime = other.mDateTime]

(* UpdateIfNewer that copies color2 without testing it for NA. *)
UpdateIfNewer_Overwrite(self, other) ==
    IF other.mDateTime <= self.mDateTime THEN self
    ELSE [self EXCEPT
            !.mName = IF other.mName # NaString THEN other.mName ELSE @,
            !.mGender = IF other.mGender # NaString THEN other.mGender ELSE @,
            !.mColor1 = IF other.mColor1 # NaString THEN other.mColor1 ELSE @,
            !.mColor2 = other.mColor2,
            !.mBreed1 = IF other.mBreed1 # NaString THEN other.mBreed1 ELSE @,
            !.mBreed2 = IF other.mBreed2 # NaString THEN other.mBreed2 ELSE @,
            !.mDateTime = other.mDateTime]

(* UpdateIfNewer that advances the timestamp only if it copied an attribute. *)
UpdateIfNewer_KeepTime(self, other) ==
    IF other.mDateTime <= self.mDateTime THEN self
    ELSE [self EXCEPT
            !.mName = IF other.mName # NaString THEN other.mName ELSE @,
            !.mGender = IF other.mGender # NaString THEN other.mGender ELSE @,
            !.mColor1 = IF other.mColor1 # NaString THEN other.mColor1 ELSE @,
            !.mColor2 = IF other.mColor2 # NaString THEN other.mColor2 ELSE @,
            !.mBreed1 = IF other.mBreed1 # NaString THEN other.mBreed1 ELSE @,
            !.mBreed2 = IF other.mBreed2 # NaString THEN other.mBreed2 ELSE @,
            !.mDateTime = IF other.mName # NaString \/ other.mGender # NaString
                             \/ other.mColor1 # NaString \/ other.mColor2 # NaString
                             \/ other.mBreed1 # NaString \/ other.mBreed2 # NaString
                          THEN other.mDateTime ELSE @]

(* UpdateIfNewer that fills unknown attributes but never overwrites a known one. *)
UpdateIfNewer_FillOnly(self, other) ==
    IF other.mDateTime <= self.mDateTime THEN self
    ELSE [self EXCEPT
            !.mName = IF @ = NaString THEN other.mName ELSE @,
            !.mGender = IF @ = NaString THEN other.mGender ELSE @,
            !.mColor1 = IF @ = NaString THEN other.mColor1 ELSE @,
            !.mColor2 = IF @ = NaString THEN other.mColor2 ELSE @,
            !.mBreed1 = IF @ = NaString THEN other.mBreed1 ELSE @,
            !.mBreed2 = IF @ = NaString THEN other.mBreed2 ELSE @,
            !.mDateTime = other.mDateTime]

(* Animal::UpdateIfNewer: self is this animal, other the update-from animal. *)
(* The method has no statement for mKind.                                    *)
UpdateIfNewer(self, other) ==
    IF other.mDateTime <= self.mDateTime THEN self
    ELSE [self EXCEPT
            !.mName = IF other.mName # NaString THEN other.mName ELSE @,
            !.mGender = IF other.mGender # NaString THEN other.mGender ELSE @,
            !.mColor1 = IF other.mColor1 # NaString THEN other.mColor1 ELSE @,
            !.mColor2 = IF other.mColor2 # NaString THEN other.mColor2 ELSE @,
            !.mBreed1 = IF other.mBreed1 # NaString THEN other.mBreed1 ELSE @,
            !.mBreed2 = IF other.mBreed2 # NaString THEN other.mBreed2 ELSE @,
            !.mDateTime = other.mDateTime]

(* AnimalMap::Lookup: the reference found, as a sequence of at most one    *)
(* animal; nullptr is the empty one.                                        *)
nullptr == <<>>

Lookup(map, animalId) == IF animalId \in DOMAIN map THEN <<map[animalId]>> ELSE nullptr

(* AnimalMap::Add: add or replace the entry under the animal's id. *)
Add(map, newAnimal) ==
    [k \in DOMAIN map \cup {newAnimal.mAnimalId} |->
        IF k = newAnimal.mAnimalId THEN newAnimal ELSE map[k]]

(* AddAnimal that stores the new animal under its id whether or not the id  *)
(* is in the registry.                                                      *)
AddAnimal_Replace(map, newAnimal) == Add(map, newAnimal)

(* AddAnimal that leaves an entry it finds as it is. *)
AddAnimal_KeepExisting(map, newAnimal) ==
    IF Lookup(map, newAnimal.mAnimalId) # nullptr THEN map ELSE Add(map, newAnimal)

(* DataFrameBuilder::AddAnimal: the registry after the call.  The animal    *)
(* returned to the caller is the entry stored under the new animal's id.    *)
AddAnimal(map, newAnimal) ==
    LET existingAnimal == Lookup(map, newAnimal.mAnimalId) IN
    IF existingAnimal # nullptr
    THEN [map EXCEPT ![newAnimal.mAnimalId] = UpdateIfNewer(existingAnimal[1], newAnimal)]
    ELSE Add(map, newAnimal)

(* Animal::AddIntake / Animal::AddOutcome on the registry entry animalId. *)
(* AddIntake that does not append an intake whose date the list already holds. *)
AddIntake_Dedup(map, animalId, intake) ==
    IF \E k \in 1..Len(map[animalId].mIntakeList) :
            map[animalId].mIntakeList[k].mIntakeDate = intake.mIntakeDate
    THEN map
    ELSE [map EXCEPT ![animalId].mIntakeList = Append(@, intake)]

AddIntake(map, animalId, intake) ==
    [map EXCEPT ![animalId].mIntakeList = Append(@, intake)]

AddOutcome(map, animalId, outcome) ==
    [map EXCEPT ![animalId].mOutcomeList = Append(@, outcome)]

GetNumIntakes(a) == Len(a.mIntakeList)

GetNumOutcomes(a) == Len(a.mOutcomeList)

(* The candidate timestamps accepted for each id after a candidate is       *)
(* resolved: the inserted one, and each one newer than the entry's.        *)
AcceptedAfter(acc, map, newAnimal) ==
    LET id == newAnimal.mAnimalId IN
    IF id \notin DOMAIN map
    THEN [k \in DOMAIN acc \cup {id} |-> IF k = id THEN {newAnimal.mDateTime} ELSE acc[k]]
    ELSE IF newAnimal.mDateTime > map[id].mDateTime
         THEN [acc EXCEPT ![id] = @ \cup {newAnimal.mDateTime}]
         ELSE acc

-----------------------------------------------------------------------------
(* Ingestion: one action per iteration of an Ingest* loop.  attrs gives the *)
(* row's value for each attribute column.                                   *)

Row(table, animalId, intakeDate, outcomeDate) ==
    [table |-> table, animalId |-> animalId,
     intakeDate |-> intakeDate, outcomeDate |-> outcomeDate]

(* The attributes a SAC open-data row has: kind and name only. *)
SacOpenAttrs(attrs) ==
    [a \in AttrNames |-> IF a \in {"mKind", "mName"} THEN attrs[a] ELSE NaString]

ingestFrame == <<build, mImpoundTable, mAnimalTable, rcout, visited, mergeLocals>>

IngestAtxIntakesRow(animalId, intakeDate, attrs) ==
    /\ pc = "IngestAtxIntakes"
    /\ LET newAnimal == MakeCandidate(animalId, intakeDate, attrs)
           n == Len(rows) + 1
       IN /\ rows' = Append(rows, Row("intake", animalId, intakeDate, NA_REAL))
          /\ candidate' = <<newAnimal>>
          /\ accepted' = AcceptedAfter(accepted, mAnimalMap, newAnimal)
          /\ mAnimalMap' = AddIntake(AddAnimal(mAnimalMap, newAnimal),
                                     animalId, MakeIntake(intakeDate, n))
    /\ UNCHANGED <<pc, ingestFrame>>

IngestAtxIntakesEnd ==
    /\ pc = "IngestAtxIntakes"
    /\ pc' = "IngestAtxOutcomes"
    /\ candidate' = nullptr
    /\ UNCHANGED <<rows, accepted, mAnimalMap, ingestFrame>>

IngestAtxOutcomesRow(animalId, outcomeDate, attrs) ==
    /\ pc = "IngestAtxOutcomes"
    /\ LET newAnimal == MakeCandidate(animalId, outcomeDate, attrs)
           n == Len(rows) + 1
       IN /\ rows' = Append(rows, Row("outcome", animalId, NA_REAL, outcomeDate))
          /\ candidate' = <<newAnimal>>
          /\ accepted' = AcceptedAfter(accepted, mAnimalMap, newAnimal)
          /\ mAnimalMap' = AddOutcome(AddAnimal(mAnimalMap, newAnimal),
                                      animalId, MakeOutcome(outcomeDate, n))
    /\ UNCHANGED <<pc, ingestFrame>>

IngestAtxOutcomesEnd ==
    /\ pc = "IngestAtxOutcomes"
    /\ pc' = "BuildImpoundTable"
    /\ candidate' = nullptr
    /\ UNCHANGED <<rows, accepted, mAnimalMap, ingestFrame>>

IngestSacOpenImpoundsRow(animalId, intakeDate, outcomeDate, attrs) ==
    /\ pc = "IngestSacOpenImpounds"
    /\ LET newAnimal == MakeCandidate(animalId, intakeDate, SacOpenAttrs(attrs))
           n == Len(rows) + 1
       IN /\ rows' = Append(rows, Row("impound", animalId, intakeDate, outcomeDate))
          /\ candidate' = <<newAnimal>>
          /\ accepted' = AcceptedAfter(accepted, mAnimalMap, newAnimal)
          /\ mAnimalMap' = AddOutcome(AddIntake(AddAnimal(mAnimalMap, newAnimal),
                                                animalId, MakeIntake(intakeDate, n)),
                                      animalId, MakeOutcome(outcomeDate, n))
    /\ UNCHANGED <<pc, ingestFrame>>

IngestSacCpraImpoundsRow(animalId, intakeDate, outcomeDate, attrs) ==
    /\ pc = "IngestSacCpraImpounds"
    /\ LET newAnimal == MakeCandidate(animalId, intakeDate, attrs)
           n == Len(rows) + 1
       IN /\ rows' = Append(rows, Row("impound", animalId, intakeDate, outcomeDate))
          /\ candidate' = <<newAnimal>>
          /\ accepted' = AcceptedAfter(accepted, mAnimalMap, newAnimal)
          /\ mAnimalMap' = AddOutcome(AddIntake(AddAnimal(mAnimalMap, newAnimal),
                                                animalId, MakeIntake(intakeDate, n)),
                                      animalId, MakeOutcome(outcomeDate, n))
    /\ UNCHANGED <<pc, ingestFrame>>

IngestSacImpoundsEnd ==
    /\ pc \in {"IngestSacOpenImpounds", "IngestSacCpraImpounds"}
    /\ pc' = "BuildImpoundTable"
    /\ candidate' = nullptr
    /\ UNCHANGED <<rows, accepted, mAnimalMap, ingestFrame>>

-----------------------------------------------------------------------------
(* Sorting.  std::sort is not a stable sort: events with equal timestamps   *)
(* may come out in any order, so the result is any ordering of the list     *)
(* in which no event is followed by one that compares less than it.         *)

IntakeTimeLessThan(intakeA, intakeB) == intakeA.mIntakeDate < intakeB.mIntakeDate

OutcomeTimeCompare(outcomeA, outcomeB) == outcomeA.mOutcomeDate < outcomeB.mOutcomeDate

Orderings(list) ==
    LET n == Len(list)
        perms == {p \in [1..n -> 1..n] : \A i, j \in 1..n : p[i] = p[j] => i = j}
    IN {[i \in 1..n |-> list[p[i]]] : p \in perms}

SortIntakes(list) ==
    {s \in Orderings(list) : \A i \in 1..(Len(s) - 1) : ~IntakeTimeLessThan(s[i + 1], s[i])}

(* SortOutcomes that leaves the list as it is. *)
SortOutcomes_Unsorted(list) == {list}

SortOutcomes(list) ==
    {s \in Orderings(list) : \A i \in 1..(Len(s) - 1) : ~OutcomeTimeCompare(s[i + 1], s[i])}

(* Animal::GetIntakeAt / GetOutcomeAt: vector::at with a 0-based index. *)
GetIntakeAt(a, i) == a.mIntakeList[i + 1]

GetOutcomeAt(a, i) == a.mOutcomeList[i + 1]

-----------------------------------------------------------------------------
(* Output rows and warnings. *)

(* ImpoundTable::Append *)
ImpoundRow(animalId, intake, outcome) ==
    [mAnimalId |-> animalId, intake |-> intake, outcome |-> outcome]

EmitSolitaryIntake(table, a, intake) == Append(table, ImpoundRow(a.mAnimalId, intake, NullOutcome))

EmitIntakeOutcome(table, a, intake, outcome) == Append(table, ImpoundRow(a.mAnimalId, intake, outcome))

(* EmitSolitaryOutcome that appends a row of two placeholders. *)
EmitSolitaryOutcome_Placeholder(table, a, outcome) ==
    Append(table, ImpoundRow(a.mAnimalId, NullIntake, NullOutcome))

(* EmitSolitaryOutcome that appends no row. *)
EmitSolitaryOutcome_NoRow(table, a, outcome) == table

EmitSolitaryOutcome(table, a, outcome) == Append(table, ImpoundRow(a.mAnimalId, NullIntake, outcome))

(* DataFrameBuilder::Warning *)
Warning(out, a, message) == Append(out, [mAnimalId |-> a.mAnimalId, message |-> message])

(* AnimalTable::Append *)
AnimalRow(a) ==
    [mAnimalId |-> a.mAnimalId, mName |-> a.mName, mKind |-> a.mKind,
     mGender |-> a.mGender, mColor1 |-> a.mColor1, mColor2 |-> a.mColor2,
     mBreed1 |-> a.mBreed1, mBreed2 |-> a.mBreed2]

(* The keys of a std::map in iteration order (ascending). *)
InOrder(S) ==
    CHOOSE s \in [1..Cardinality(S) -> S] :
        \A i, j \in 1..Cardinality(S) : i < j => s[i] < s[j]

-----------------------------------------------------------------------------
(* BuildImpoundTable: for each animal in key order, sort and merge. *)

mergeFrame == <<build, rows, candidate, accepted, mAnimalTable, visited>>

BuildImpoundTableNext ==
    /\ pc = "BuildImpoundTable"
    /\ DOMAIN mAnimalMap \ visited # {}
    /\ LET id == InOrder(DOMAIN mAnimalMap \ visited)[1] IN
       \E il \in SortIntakes(mAnimalMap[id].mIntakeList),
          ol \in SortOutcomes(mAnimalMap[id].mOutcomeList) :
            /\ mAnimalMap' = [mAnimalMap EXCEPT ![id].mIntakeList = il,
                                                ![id].mOutcomeList = ol]
            /\ visited' = visited \cup {id}
            /\ animal' = id
            /\ numIntakesRemaining' = Len(il)
            /\ numOutcomesRemaining' = Len(ol)
            /\ nextIntake' = 0
            /\ nextOutcome' = 0
            /\ pc' = "MergeAnimal"
    /\ UNCHANGED <<build, rows, candidate, accepted, mImpoundTable, mAnimalTable, rcout>>

BuildImpoundTableEnd ==
    /\ pc = "BuildImpoundTable"
    /\ DOMAIN mAnimalMap \ visited = {}
    /\ pc' = "BuildAnimalTable"
    /\ UNCHANGED <<build, rows, candidate, accepted, mAnimalMap, mImpoundTable, mAnimalTable,
                   rcout, visited, mergeLocals>>

(* MergeIntakesLeft that keeps the first remaining intake, not the last. *)
MergeIntakesLeft_First ==
    /\ pc = "MergeAnimal"
    /\ numIntakesRemaining > 0
    /\ numOutcomesRemaining = 0
    /\ LET a == mAnimalMap[animal]
           intake == GetIntakeAt(a, nextIntake)
       IN \/ /\ numIntakesRemaining > 1
             /\ rcout' = Warning(rcout, a, WarnUnmatchedIntake)
             /\ mImpoundTable' = EmitSolitaryIntake(mImpoundTable, a, intake)
             /\ numIntakesRemaining' = 0
             /\ nextIntake' = GetNumIntakes(a)
          \/ /\ ~(numIntakesRemaining > 1)
             /\ mImpoundTable' = EmitSolitaryIntake(mImpoundTable, a, intake)
             /\ numIntakesRemaining' = numIntakesRemaining - 1
             /\ nextIntake' = nextIntake + 1
             /\ UNCHANGED rcout
    /\ UNCHANGED <<pc, mAnimalMap, animal, numOutcomesRemaining, nextOutcome, mergeFrame>>

(* MergeIntakesLeft whose warning branch leaves the counter and the cursor. *)
MergeIntakesLeft_KeepCounter ==
    /\ pc = "MergeAnimal"
    /\ numIntakesRemaining > 0
    /\ numOutcomesRemaining = 0
    /\ LET a == mAnimalMap[animal]
           intake == GetIntakeAt(a, nextIntake)
       IN \/ /\ numIntakesRemaining > 1
             /\ rcout' = Warning(rcout, a, WarnUnmatchedIntake)
             /\ mImpoundTable' = EmitSolitaryIntake(mImpoundTable, a,
                                     GetIntakeAt(a, GetNumIntakes(a) - 1))
             /\ UNCHANGED <<numIntakesRemaining, nextIntake>>
          \/ /\ ~(numIntakesRemaining > 1)
             /\ mImpoundTable' = EmitSolitaryIntake(mImpoundTable, a, intake)
             /\ numIntakesRemaining' = numIntakesRemaining - 1
             /\ nextIntake' = nextIntake + 1
             /\ UNCHANGED rcout
    /\ UNCHANGED <<pc, mAnimalMap, animal, numOutcomesRemaining, nextOutcome, mergeFrame>>

(* MergeIntakesLeft that skips the unmatched intakes without a warning. *)
MergeIntakesLeft_Silent ==
    /\ pc = "MergeAnimal"
    /\ numIntakesRemaining > 0
    /\ numOutcomesRemaining = 0
    /\ LET a == mAnimalMap[animal]
       IN /\ mImpoundTable' = EmitSolitaryIntake(mImpoundTable, a,
                                  GetIntakeAt(a, GetNumIntakes(a) - 1))
          /\ numIntakesRemaining' = 0
          /\ nextIntake' = GetNumIntakes(a)
          /\ UNCHANGED rcout
    /\ UNCHANGED <<pc, mAnimalMap, animal, numOutcomesRemaining, nextOutcome, mergeFrame>>

(* MergeIntakesLeft that emits every remaining intake alone, one at a time. *)
MergeIntakesLeft_EachAlone ==
    /\ pc = "MergeAnimal"
    /\ numIntakesRemaining > 0
    /\ numOutcomesRemaining = 0
    /\ LET a == mAnimalMap[animal]
           intake == GetIntakeAt(a, nextIntake)
       IN /\ mImpoundTable' = EmitSolitaryIntake(mImpoundTable, a, intake)
          /\ numIntakesRemaining' = numIntakesRemaining - 1
          /\ nextIntake' = nextIntake + 1
          /\ UNCHANGED rcout
    /\ UNCHANGED <<pc, mAnimalMap, animal, numOutcomesRemaining, nextOutcome, mergeFrame>>

(* MergeIntakesLeft whose warning branch zeroes the counter but leaves the cursor. *)
MergeIntakesLeft_CursorStays ==
    /\ pc = "MergeAnimal"
    /\ numIntakesRemaining > 0
    /\ numOutcomesRemaining = 0
    /\ LET a == mAnimalMap[animal]
           intake == GetIntakeAt(a, nextIntake)
       IN \/ /\ numIntakesRemaining > 1
             /\ rcout' = Warning(rcout, a, WarnUnmatchedIntake)
             /\ mImpoundTable' = EmitSolitaryIntake(mImpoundTable, a,
                                     GetIntakeAt(a, GetNumIntakes(a) - 1))
             /\ numIntakesRemaining' = 0
             /\ UNCHANGED nextIntake
          \/ /\ ~(numIntakesRemaining > 1)
             /\ mImpoundTable' = EmitSolitaryIntake(mImpoundTable, a, intake)
             /\ numIntakesRemaining' = numIntakesRemaining - 1
             /\ nextIntake' = nextIntake + 1
             /\ UNCHANGED rcout
    /\ UNCHANGED <<pc, mAnimalMap, animal, numOutcomesRemaining, nextOutcome, mergeFrame>>

(* MergeAnimal, one loop iteration with no outcome remaining. *)
MergeIntakesLeft ==
    /\ pc = "MergeAnimal"
    /\ numIntakesRemaining > 0
    /\ numOutcomesRemaining = 0
    /\ LET a == mAnimalMap[animal]
           intake == GetIntakeAt(a, nextIntake)
       IN \/ /\ numIntakesRemaining > 1
             /\ rcout' = Warning(rcout, a, WarnUnmatchedIntake)
             /\ mImpoundTable' = EmitSolitaryIntake(mImpoundTable, a,
                                     GetIntakeAt(a, GetNumIntakes(a) - 1))
             /\ numIntakesRemaining' = 0
             /\ nextIntake' = GetNumIntakes(a)
          \/ /\ ~(numIntakesRemaining > 1)
             /\ mImpoundTable' = EmitSolitaryIntake(mImpoundTable, a, intake)
             /\ numIntakesRemaining' = numIntakesRemaining - 1
             /\ nextIntake' = nextIntake + 1
             /\ UNCHANGED rcout
    /\ UNCHANGED <<pc, mAnimalMap, animal, numOutcomesRemaining, nextOutcome, mergeFrame>>

(* The test taken as always true, and as always false. *)
FirstPairingAttempt_Always(a, remaining) == TRUE

FirstPairingAttempt_Never(a, remaining) == FALSE

(* The test taken as true while the impound table is still empty. *)
FirstPairingAttempt_TableEmpty(a, remaining) == mImpoundTable = <<>>

(* The test taken as true until two intakes have been consumed. *)
FirstPairingAttempt_OffByOne(a, remaining) == remaining >= GetNumIntakes(a) - 1

(* MergeAnimal's test that no intake of the animal has been consumed. *)
FirstPairingAttempt(a, remaining) == remaining = GetNumIntakes(a)

(* MergeNextOutcome that leaves the outcome cursor when it drops an outcome. *)
MergeNextOutcome_KeepCursor ==
    /\ pc = "MergeAnimal"
    /\ numIntakesRemaining > 0
    /\ numOutcomesRemaining # 0
    /\ LET a == mAnimalMap[animal]
           intake == GetIntakeAt(a, nextIntake)
           outcome == GetOutcomeAt(a, nextOutcome)
       IN /\ numOutcomesRemaining' = numOutcomesRemaining - 1
          /\ \/ /\ CompareByDay(outcome.mOutcomeDate, intake.mIntakeDate) = "EarlierDay"
                /\ FirstPairingAttempt(a, numIntakesRemaining)
                /\ mImpoundTable' = EmitSolitaryOutcome(mImpoundTable, a, outcome)
                /\ nextOutcome' = nextOutcome + 1
                /\ UNCHANGED <<rcout, numIntakesRemaining, nextIntake>>
             \/ /\ CompareByDay(outcome.mOutcomeDate, intake.mIntakeDate) = "EarlierDay"
                /\ ~FirstPairingAttempt(a, numIntakesRemaining)
                /\ rcout' = Warning(rcout, a, WarnOutcomeOutOfOrder)
                /\ UNCHANGED <<mImpoundTable, numIntakesRemaining, nextIntake, nextOutcome>>
             \/ /\ CompareByDay(outcome.mOutcomeDate, intake.mIntakeDate) # "EarlierDay"
                /\ mImpoundTable' = EmitIntakeOutcome(mImpoundTable, a, intake, outcome)
                /\ numIntakesRemaining' = numIntakesRemaining - 1
                /\ nextIntake' = nextIntake + 1
                /\ nextOutcome' = nextOutcome + 1
                /\ UNCHANGED rcout
    /\ UNCHANGED <<pc, mAnimalMap, animal, mergeFrame>>

(* MergeAnimal, one loop iteration that consumes the next outcome. *)
MergeNextOutcome ==
    /\ pc = "MergeAnimal"
    /\ numIntakesRemaining > 0
    /\ numOutcomesRemaining # 0
    /\ LET a == mAnimalMap[animal]
           intake == GetIntakeAt(a, nextIntake)
           outcome == GetOutcomeAt(a, nextOutcome)
       IN /\ numOutcomesRemaining' = numOutcomesRemaining - 1
          /\ nextOutcome' = nextOutcome + 1
          /\ \/ /\ CompareByDay(outcome.mOutcomeDate, intake.mIntakeDate) = "EarlierDay"
                /\ FirstPairingAttempt(a, numIntakesRemaining)
                /\ mImpoundTable' = EmitSolitaryOutcome(mImpoundTable, a, outcome)
                /\ UNCHANGED <<rcout, numIntakesRemaining, nextIntake>>
             \/ /\ CompareByDay(outcome.mOutcomeDate, intake.mIntakeDate) = "EarlierDay"
                /\ ~FirstPairingAttempt(a, numIntakesRemaining)
                /\ rcout' = Warning(rcout, a, WarnOutcomeOutOfOrder)
                /\ UNCHANGED <<mImpoundTable, numIntakesRemaining, nextIntake>>
             \/ /\ CompareByDay(outcome.mOutcomeDate, intake.mIntakeDate) # "EarlierDay"
                /\ mImpoundTable' = EmitIntakeOutcome(mImpoundTable, a, intake, outcome)
                /\ numIntakesRemaining' = numIntakesRemaining - 1
                /\ nextIntake' = nextIntake + 1
                /\ UNCHANGED rcout
    /\ UNCHANGED <<pc, mAnimalMap, animal, mergeFrame>>

(* MergeAnimalReturn that prints the warning once per outcome left over. *)
RECURSIVE WarnTimes(_, _, _, _)
WarnTimes(out, a, message, k) ==
    IF k = 0 THEN out ELSE WarnTimes(Warning(out, a, message), a, message, k - 1)

MergeAnimalReturn_WarnEach ==
    /\ pc = "MergeAnimal"
    /\ ~(numIntakesRemaining > 0)
    /\ LET a == mAnimalMap[animal]
       IN \/ /\ numOutcomesRemaining > 0
             /\ GetNumIntakes(a) = 0
             /\ mImpoundTable' = EmitSolitaryOutcome(mImpoundTable, a,
                                                     GetOutcomeAt(a, nextOutcome))
             /\ UNCHANGED rcout
          \/ /\ numOutcomesRemaining > 0
             /\ GetNumIntakes(a) # 0
             /\ rcout' = WarnTimes(rcout, a, WarnExtraOutcomes, numOutcomesRemaining)
             /\ UNCHANGED mImpoundTable
          \/ /\ ~(numOutcomesRemaining > 0)
             /\ UNCHANGED <<mImpoundTable, rcout>>
    /\ pc' = "BuildImpoundTable"
    /\ UNCHANGED <<mAnimalMap, mergeLocals, mergeFrame>>

(* MergeAnimalReturn that prints the warning for every animal with an intake. *)
MergeAnimalReturn_WarnAlways ==
    /\ pc = "MergeAnimal"
    /\ ~(numIntakesRemaining > 0)
    /\ LET a == mAnimalMap[animal]
       IN \/ /\ numOutcomesRemaining > 0
             /\ GetNumIntakes(a) = 0
             /\ mImpoundTable' = EmitSolitaryOutcome(mImpoundTable, a,
                                                     GetOutcomeAt(a, nextOutcome))
             /\ UNCHANGED rcout
          \/ /\ GetNumIntakes(a) # 0
             /\ rcout' = Warning(rcout, a, WarnExtraOutcomes)
             /\ UNCHANGED mImpoundTable
          \/ /\ ~(numOutcomesRemaining > 0)
             /\ GetNumIntakes(a) = 0
             /\ UNCHANGED <<mImpoundTable, rcout>>
    /\ pc' = "BuildImpoundTable"
    /\ UNCHANGED <<mAnimalMap, mergeLocals, mergeFrame>>

(* MergeAnimal, from the loop's exit to the return.  The locals keep their  *)
(* last values until the next call starts.                                  *)
MergeAnimalReturn ==
    /\ pc = "MergeAnimal"
    /\ ~(numIntakesRemaining > 0)
    /\ LET a == mAnimalMap[animal]
       IN \/ /\ numOutcomesRemaining > 0
             /\ GetNumIntakes(a) = 0
             /\ mImpoundTable' = EmitSolitaryOutcome(mImpoundTable, a,
                                                     GetOutcomeAt(a, nextOutcome))
             /\ UNCHANGED rcout
          \/ /\ numOutcomesRemaining > 0
             /\ GetNumIntakes(a) # 0
             /\ rcout' = Warning(rcout, a, WarnExtraOutcomes)
             /\ UNCHANGED mImpoundTable
          \/ /\ ~(numOutcomesRemaining > 0)
             /\ UNCHANGED <<mImpoundTable, rcout>>
    /\ pc' = "BuildImpoundTable"
    /\ UNCHANGED <<mAnimalMap, mergeLocals, mergeFrame>>

-----------------------------------------------------------------------------
(* MergeAnimal as a function of the two sorted lists alone: the intake and  *)
(* outcome of each row it emits and the messages it prints, in order, from  *)
(* the cursors nextIntake = ni and nextOutcome = no (0-based) to the        *)
(* return.  The intakes remaining are those from ni on.                     *)

MergeOutput(records, warnings) == [records |-> records, warnings |-> warnings]

Then(first, rest) ==
    MergeOutput(first.records \o rest.records, first.warnings \o rest.warnings)

RECURSIVE MergeAnimalFrom(_, _, _, _)
MergeAnimalFrom(il, ol, ni, no) ==
    IF Len(il) - ni > 0
    THEN IF Len(ol) - no = 0
         THEN IF Len(il) - ni > 1
              THEN Then(MergeOutput(<<[intake |-> il[Len(il)], outcome |-> NullOutcome]>>,
                                    <<WarnUnmatchedIntake>>),
                        MergeAnimalFrom(il, ol, Len(il), no))
              ELSE Then(MergeOutput(<<[intake |-> il[ni + 1], outcome |-> NullOutcome]>>, <<>>),
                        MergeAnimalFrom(il, ol, ni + 1, no))
         ELSE IF CompareByDay(ol[no + 1].mOutcomeDate, il[ni + 1].mIntakeDate) = "EarlierDay"
              THEN IF ni = 0
                   THEN Then(MergeOutput(<<[intake |-> NullIntake, outcome |-> ol[no + 1]]>>,
                                         <<>>),
                             MergeAnimalFrom(il, ol, ni, no + 1))
                   ELSE Then(MergeOutput(<<>>, <<WarnOutcomeOutOfOrder>>),
                             MergeAnimalFrom(il, ol, ni, no + 1))
              ELSE Then(MergeOutput(<<[intake |-> il[ni + 1], outcome |-> ol[no + 1]]>>, <<>>),
                        MergeAnimalFrom(il, ol, ni + 1, no + 1))
    ELSE IF Len(ol) - no > 0
         THEN IF Len(il) = 0
              THEN MergeOutput(<<[intake |-> NullIntake, outcome |-> ol[no + 1]]>>, <<>>)
              ELSE MergeOutput(<<>>, <<WarnExtraOutcomes>>)
         ELSE MergeOutput(<<>>, <<>>)

MergeAnimalOf(a) == MergeAnimalFrom(a.mIntakeList, a.mOutcomeList, 0, 0)

(* BuildAnimalTable: one row per registry entry, in key order. *)
BuildAnimalTable ==
    /\ pc = "BuildAnimalTable"
    /\ LET ids == InOrder(DOMAIN mAnimalMap)
       IN mAnimalTable' = mAnimalTable \o [i \in 1..Len(ids) |-> AnimalRow(mAnimalMap[ids[i]])]
    /\ pc' = "done"
    /\ UNCHANGED <<build, rows, candidate, accepted, mAnimalMap, mImpoundTable, rcout, visited,
                   mergeLocals>>

-----------------------------------------------------------------------------
(* The builder after construction and Clear(), at the first Ingest* call of *)
(* the entry point that runs.                                               *)

FirstStep(b) ==
    CASE b = "atx" -> "IngestAtxIntakes"
      [] b = "sacOpen" -> "IngestSacOpenImpounds"
      [] b = "sacCpra" -> "IngestSacCpraImpounds"

Init ==
    /\ build \in {"atx", "sacOpen", "sacCpra"}
    /\ pc = FirstStep(build)
    /\ rows = <<>>
    /\ candidate = nullptr
    /\ mAnimalMap = <<>>
    /\ accepted = <<>>
    /\ mImpoundTable = <<>>
    /\ mAnimalTable = <<>>
    /\ rcout = <<>>
    /\ visited = {}
    /\ animal = NoAnimal
    /\ numIntakesRemaining = 0
    /\ numOutcomesRemaining = 0
    /\ nextIntake = 0
    /\ nextOutcome = 0

(* Sorting, pairing and output: the part of every entry point after ingestion. *)
Build ==
    \/ BuildImpoundTableNext
    \/ BuildImpoundTableEnd
    \/ MergeIntakesLeft
    \/ MergeNextOutcome
    \/ MergeAnimalReturn
    \/ BuildAnimalTable

NumRows(table) == Cardinality({i \in 1..Len(rows) : rows[i].table = table})

AllAttrs(v) == [a \in AttrNames |-> v]

OneAttr(a, v) == [AllAttrs(NaString) EXCEPT ![a] = v]

-----------------------------------------------------------------------------
(* Spec: one animal, ATX tables of at most MaxEvents rows each or a SAC     *)
(* table of at most MaxImpounds rows; a timestamp is one of two instants of *)
(* the first day, or the start of the next day, of the next month or of   *)
(* the next year; every row gives the same attributes.                     *)

PairIds == {1}

PairTimes ==
    {0, 1, TicksPerDay, TicksPerDay * DaysPerMonth, TicksPerDay * DaysPerMonth * MonthsPerYear}

PairAttrs == AllAttrs("x")

IngestPair ==
    \/ \E id \in PairIds, t \in PairTimes :
          NumRows("intake") < MaxEvents /\ IngestAtxIntakesRow(id, t, PairAttrs)
    \/ IngestAtxIntakesEnd
    \/ \E id \in PairIds, t \in PairTimes :
          NumRows("outcome") < MaxEvents /\ IngestAtxOutcomesRow(id, t, PairAttrs)
    \/ IngestAtxOutcomesEnd
    \/ \E id \in PairIds, t \in PairTimes, u \in PairTimes :
          NumRows("impound") < MaxImpounds /\ IngestSacOpenImpoundsRow(id, t, u, PairAttrs)
    \/ \E id \in PairIds, t \in PairTimes, u \in PairTimes :
          NumRows("impound") < MaxImpounds /\ IngestSacCpraImpoundsRow(id, t, u, PairAttrs)
    \/ IngestSacImpoundsEnd

Next == IngestPair \/ Build

Spec == Init /\ [][Next]_vars

-----------------------------------------------------------------------------
(* SpecRegistry: one animal, at most MaxMergeRows rows in total with        *)
(* as many timestamps; a row has every attribute unknown, every attribute  *)
(* known, or exactly one attribute known.                                   *)

RegistryIds == {1}

RegistryTimes == 1..MaxMergeRows

RegistryAttrs ==
    {AllAttrs(NaString), AllAttrs("x"), AllAttrs("y")}
        \cup {OneAttr(a, "y") : a \in AttrNames}

IngestRegistry ==
    \/ \E id \in RegistryIds, t \in RegistryTimes, attrs \in RegistryAttrs :
          Len(rows) < MaxMergeRows /\ IngestAtxIntakesRow(id, t, attrs)
    \/ IngestAtxIntakesEnd
    \/ \E id \in RegistryIds, t \in RegistryTimes, attrs \in RegistryAttrs :
          Len(rows) < MaxMergeRows /\ IngestAtxOutcomesRow(id, t, attrs)
    \/ IngestAtxOutcomesEnd
    \/ \E id \in RegistryIds, t \in RegistryTimes, attrs \in RegistryAttrs :
          Len(rows) < MaxMergeRows /\ IngestSacOpenImpoundsRow(id, t, t, attrs)
    \/ \E id \in RegistryIds, t \in RegistryTimes, attrs \in RegistryAttrs :
          Len(rows) < MaxMergeRows /\ IngestSacCpraImpoundsRow(id, t, t, attrs)
    \/ IngestSacImpoundsEnd

NextRegistry == IngestRegistry \/ Build

SpecRegistry == Init /\ [][NextRegistry]_vars

-----------------------------------------------------------------------------
(* SpecLeftover: the ATX entry point for one animal with at most            *)
(* MaxLeftoverIntakes intake rows and MaxLeftoverOutcomes outcome rows, so  *)
(* that several outcomes can be left over after the last intake.            *)

InitLeftover == Init /\ build = "atx"

IngestLeftover ==
    \/ \E id \in PairIds, t \in PairTimes :
          NumRows("intake") < MaxLeftoverIntakes /\ IngestAtxIntakesRow(id, t, PairAttrs)
    \/ IngestAtxIntakesEnd
    \/ \E id \in PairIds, t \in PairTimes :
          NumRows("outcome") < MaxLeftoverOutcomes /\ IngestAtxOutcomesRow(id, t, PairAttrs)
    \/ IngestAtxOutcomesEnd

NextLeftover == IngestLeftover \/ Build

SpecLeftover == InitLeftover /\ [][NextLeftover]_vars

-----------------------------------------------------------------------------
(* SpecKeys: two animals, every entry point, at most MaxKeyRows rows in     *)
(* each input table; a timestamp is the start of the first or of the        *)
(* second day; every row gives the same attributes.                         *)

KeyIds == {1, 2}

KeyTimes == {0, TicksPerDay}

IngestKeys ==
    \/ \E id \in KeyIds, t \in KeyTimes :
          NumRows("intake") < MaxKeyRows /\ IngestAtxIntakesRow(id, t, PairAttrs)
    \/ IngestAtxIntakesEnd
    \/ \E id \in KeyIds, t \in KeyTimes :
          NumRows("outcome") < MaxKeyRows /\ IngestAtxOutcomesRow(id, t, PairAttrs)
    \/ IngestAtxOutcomesEnd
    \/ \E id \in KeyIds, t \in KeyTimes, u \in KeyTimes :
          NumRows("impound") < MaxKeyRows /\ IngestSacOpenImpoundsRow(id, t, u, PairAttrs)
    \/ \E id \in KeyIds, t \in KeyTimes, u \in KeyTimes :
          NumRows("impound") < MaxKeyRows /\ IngestSacCpraImpoundsRow(id, t, u, PairAttrs)
    \/ IngestSacImpoundsEnd

NextKeys == IngestKeys \/ Build

SpecKeys == Init /\ [][NextKeys]_vars

-----------------------------------------------------------------------------
(* SpecFair: SpecKeys for a builder that keeps running: once ingestion is   *)
(* over, the statements of BuildImpoundTable, MergeAnimal and               *)
(* BuildAnimalTable are executed one after the other until the entry point  *)
(* returns.                                                                 *)

SpecFair == Init /\ [][NextKeys]_vars /\ WF_vars(Build)

-----------------------------------------------------------------------------
(* Vocabulary of the properties. *)

(* The impound rows, and the warnings with a given message, of one animal. *)
RecordsOf(id) == SelectSeq(mImpoundTable, LAMBDA r : r.mAnimalId = id)

WarningsOf(id, message) ==
    SelectSeq(rcout, LAMBDA w : w.mAnimalId = id /\ w.message = message)

AllWarningsOf(id) == SelectSeq(rcout, LAMBDA w : w.mAnimalId = id)

HasIntake(r) == r.intake # NullIntake

HasOutcome(r) == r.outcome # NullOutcome

(* MergeAnimal has returned for this animal. *)
Merged(id) == id \in visited /\ (animal = id => pc # "MergeAnimal")

(* MergeAnimal's last call was for this animal and has returned: its locals *)
(* still hold their final values.                                           *)
JustMerged(id) == animal = id /\ pc # "MergeAnimal"

(* MergeAnimal is at the top of an iteration with an outcome to consume. *)
AtNextOutcome == pc = "MergeAnimal" /\ numIntakesRemaining > 0 /\ numOutcomesRemaining > 0

(* Some impound row of the animal holds this intake / this outcome. *)
IntakeEmitted(id, intake) ==
    \E j \in 1..Len(RecordsOf(id)) : RecordsOf(id)[j].intake = intake

OutcomeEmitted(id, outcome) ==
    \E j \in 1..Len(RecordsOf(id)) : RecordsOf(id)[j].outcome = outcome

(* Calendar days compared on their year, month and day. *)
EarlierCalendarDay(t1, t2) ==
    \/ getYear(t1) < getYear(t2)
    \/ getYear(t1) = getYear(t2) /\ getMonth(t1) < getMonth(t2)
    \/ getYear(t1) = getYear(t2) /\ getMonth(t1) = getMonth(t2) /\ getDay(t1) < getDay(t2)

MaxOf(S) == CHOOSE x \in S : \A y \in S : y <= x

(* The step reads a row: an Ingest* loop iteration. *)
ReadsRow == Len(rows') = Len(rows) + 1

-----------------------------------------------------------------------------
(* C1: for an animal with zero intakes and m >= 1 outcomes, MergeAnimal     *)
(* emits every one of the m outcomes as its own outcome-only impound row    *)
(* (m rows, each with a placeholder intake) and prints no warning.          *)
C1_ZeroIntakesEveryOutcomeEmitted ==
    \A id \in DOMAIN mAnimalMap :
        LET a == mAnimalMap[id]
            m == GetNumOutcomes(a)
        IN (Merged(id) /\ GetNumIntakes(a) = 0 /\ m >= 1) =>
              /\ Len(RecordsOf(id)) = m
              /\ \A k \in 1..m :
                    \E j \in 1..Len(RecordsOf(id)) :
                        RecordsOf(id)[j] = ImpoundRow(id, NullIntake, a.mOutcomeList[k])
              /\ AllWarningsOf(id) = <<>>

(* C2: when a candidate with a strictly greater timestamp is merged into an *)
(* existing animal, every attribute (kind, gender, name, colors, breeds)    *)
(* takes the candidate's value if that is known and keeps its value if the  *)
(* candidate's is unknown.                                                  *)
C2_MergeEveryAttribute ==
    [][ReadsRow =>
          LET c == candidate'[1]
              id == c.mAnimalId
          IN (id \in DOMAIN mAnimalMap /\ c.mDateTime > mAnimalMap[id].mDateTime) =>
                \A attr \in AttrNames :
                    mAnimalMap'[id][attr] =
                        IF c[attr] # NaString THEN c[attr] ELSE mAnimalMap[id][attr]]_vars

(* C3: in every impound row that holds a real intake and a real outcome,    *)
(* the outcome's calendar day is the intake's or a later one, and           *)
(* CompareByDay(outcome, intake) is not EarlierDay.                         *)
C3_PairedOutcomeNotEarlierDay ==
    \A k \in 1..Len(mImpoundTable) :
        LET r == mImpoundTable[k] IN
        (HasIntake(r) /\ HasOutcome(r)) =>
            /\ ~EarlierCalendarDay(r.outcome.mOutcomeDate, r.intake.mIntakeDate)
            /\ CompareByDay(r.outcome.mOutcomeDate, r.intake.mIntakeDate) # "EarlierDay"

(* A row pairs an intake with an outcome of the same day but an earlier instant. *)
C3_Witness ==
    \E k \in 1..Len(mImpoundTable) :
        LET r == mImpoundTable[k] IN
        /\ HasIntake(r) /\ HasOutcome(r)
        /\ r.outcome.mOutcomeDate < r.intake.mIntakeDate

(* C4: an animal's reference timestamp is the greatest timestamp among the  *)
(* candidates accepted for its id (the inserted one and each merged one),   *)
(* it never decreases, and an accepted merge sets it to the candidate's     *)
(* timestamp whether or not an attribute changed.                           *)
C4_ReferenceTimestampIsMaxAccepted ==
    /\ [](\A id \in DOMAIN mAnimalMap : mAnimalMap[id].mDateTime = MaxOf(accepted[id]))
    /\ [][\A id \in DOMAIN mAnimalMap :
            mAnimalMap'[id].mDateTime >= mAnimalMap[id].mDateTime]_vars
    /\ [][ReadsRow =>
            LET c == candidate'[1]
                id == c.mAnimalId
            IN (id \in DOMAIN mAnimalMap /\ c.mDateTime > mAnimalMap[id].mDateTime) =>
                  mAnimalMap'[id].mDateTime = c.mDateTime]_vars

(* A candidate with no known attribute was merged and advanced the timestamp. *)
C4_Witness ==
    /\ candidate # nullptr
    /\ LET c == candidate[1]
           id == c.mAnimalId
       IN /\ \A attr \in AttrNames : c[attr] = NaString
          /\ Len(rows) >= 2
          /\ Cardinality(accepted[id]) = Len(rows)
          /\ mAnimalMap[id].mDateTime = c.mDateTime

(* C5: an attribute of a registry entry that holds a known value never      *)
(* becomes NA again.                                                        *)
C5_KnownAttributeStaysKnown ==
    [][\A id \in DOMAIN mAnimalMap : \A attr \in AttrNames :
          mAnimalMap[id][attr] # NaString => mAnimalMap'[id][attr] # NaString]_vars

(* A candidate with an unknown attribute was merged into an entry that      *)
(* knows that attribute.                                                    *)
C5_Witness ==
    /\ candidate # nullptr
    /\ LET c == candidate[1]
           id == c.mAnimalId
       IN /\ Len(rows) >= 2
          /\ Cardinality(accepted[id]) = Len(rows)
          /\ mAnimalMap[id].mDateTime = c.mDateTime
          /\ \E attr \in AttrNames \ {"mKind"} :
                c[attr] = NaString /\ mAnimalMap[id][attr] # NaString

(* C6: a candidate whose timestamp is equal to or earlier than the existing *)
(* entry's leaves every attribute and the reference timestamp of the entry  *)
(* unchanged and prints nothing.                                            *)
C6_NotNewerCandidateIgnored ==
    [][ReadsRow =>
          LET c == candidate'[1]
              id == c.mAnimalId
          IN (id \in DOMAIN mAnimalMap /\ c.mDateTime <= mAnimalMap[id].mDateTime) =>
                /\ \A attr \in AttrNames : mAnimalMap'[id][attr] = mAnimalMap[id][attr]
                /\ mAnimalMap'[id].mDateTime = mAnimalMap[id].mDateTime
                /\ rcout' = rcout]_vars

(* The second row had the entry's timestamp and another name, and was ignored. *)
C6_Witness ==
    /\ candidate # nullptr
    /\ LET c == candidate[1]
           id == c.mAnimalId
       IN /\ Len(rows) = 2
          /\ rows[1].animalId = id
          /\ c.mDateTime = mAnimalMap[id].mDateTime
          /\ c.mName # NaString
          /\ mAnimalMap[id].mName # c.mName

(* C7: with no outcome remaining and more than one intake remaining,        *)
(* MergeAnimal prints 'Intake not matched with outcome.' once, emits one    *)
(* intake-only row holding the last (most recent) intake of the sorted      *)
(* list, consumes every remaining intake, and emits no row for the others.  *)
C7_UnmatchedIntakesKeepLast ==
    /\ [][(pc = "MergeAnimal" /\ numOutcomesRemaining = 0 /\ numIntakesRemaining > 1) =>
            LET a == mAnimalMap[animal]
                n == Len(a.mIntakeList)
            IN /\ rcout' = Append(rcout, [mAnimalId |-> animal,
                                          message |-> WarnUnmatchedIntake])
               /\ mImpoundTable' = Append(mImpoundTable,
                                          ImpoundRow(animal, a.mIntakeList[n], NullOutcome))
               /\ numIntakesRemaining' = 0
               /\ nextIntake' = n]_vars
    /\ [](\A id \in visited :
            Len(WarningsOf(id, WarnUnmatchedIntake)) > 0 =>
                LET a == mAnimalMap[id]
                    n == Len(a.mIntakeList)
                    all == RecordsOf(id)
                    recs == SelectSeq(all, HasIntake)
                IN /\ Len(WarningsOf(id, WarnUnmatchedIntake)) = 1
                   /\ Len(recs) < n
                   /\ all[Len(all)] = ImpoundRow(id, a.mIntakeList[n], NullOutcome)
                   /\ \A k \in 1..n : a.mIntakeList[k].mIntakeDate <= a.mIntakeList[n].mIntakeDate
                   /\ \A k \in Len(recs)..(n - 1) : ~IntakeEmitted(id, a.mIntakeList[k]))

(* Two intakes at different instants and no outcome: one warning, one row,  *)
(* holding the later intake.                                                *)
C7_Witness ==
    \E id \in DOMAIN mAnimalMap :
        LET a == mAnimalMap[id] IN
        /\ JustMerged(id)
        /\ Len(a.mIntakeList) = 2
        /\ a.mIntakeList[1].mIntakeDate < a.mIntakeList[2].mIntakeDate
        /\ Len(WarningsOf(id, WarnUnmatchedIntake)) = 1
        /\ RecordsOf(id) = <<ImpoundRow(id, a.mIntakeList[2], NullOutcome)>>

(* C8: when the next outcome is on an earlier calendar day than the current *)
(* intake and no intake has been consumed, MergeAnimal emits the outcome   *)
(* as an outcome-only row, prints no warning and leaves the intake cursor;  *)
(* one intake preceded by one earlier-day outcome gives exactly the rows    *)
(* outcome-only, intake-only and no warning.                                *)
C8_EarlyOutcomeBeforeFirstIntake ==
    /\ [][(AtNextOutcome /\ nextIntake = 0) =>
            LET a == mAnimalMap[animal]
                intake == GetIntakeAt(a, nextIntake)
                outcome == GetOutcomeAt(a, nextOutcome)
            IN EarlierCalendarDay(outcome.mOutcomeDate, intake.mIntakeDate) =>
                  /\ mImpoundTable' = Append(mImpoundTable,
                                             ImpoundRow(animal, NullIntake, outcome))
                  /\ rcout' = rcout
                  /\ nextIntake' = nextIntake
                  /\ numIntakesRemaining' = numIntakesRemaining]_vars
    /\ [](\A id \in DOMAIN mAnimalMap :
            LET a == mAnimalMap[id] IN
            (/\ Merged(id)
             /\ Len(a.mIntakeList) = 1
             /\ Len(a.mOutcomeList) = 1
             /\ EarlierCalendarDay(a.mOutcomeList[1].mOutcomeDate,
                                   a.mIntakeList[1].mIntakeDate)) =>
                /\ RecordsOf(id) = <<ImpoundRow(id, NullIntake, a.mOutcomeList[1]),
                                     ImpoundRow(id, a.mIntakeList[1], NullOutcome)>>
                /\ AllWarningsOf(id) = <<>>)

(* One intake and one outcome of an earlier day have been merged. *)
C8_Witness ==
    \E id \in DOMAIN mAnimalMap :
        LET a == mAnimalMap[id] IN
        /\ JustMerged(id)
        /\ Len(a.mIntakeList) = 1
        /\ Len(a.mOutcomeList) = 1
        /\ EarlierCalendarDay(a.mOutcomeList[1].mOutcomeDate, a.mIntakeList[1].mIntakeDate)
        /\ Len(RecordsOf(id)) = 2

(* C9: when the next outcome is on an earlier calendar day than the current *)
(* intake and an intake has already been consumed, MergeAnimal prints       *)
(* 'Outcome out of order. Discarded.', emits no row, leaves the intake      *)
(* cursor and goes on with the same intake and the following outcome.       *)
C9_OutcomeOutOfOrderDropped ==
    [][(AtNextOutcome /\ nextIntake > 0) =>
          LET a == mAnimalMap[animal]
              intake == GetIntakeAt(a, nextIntake)
              outcome == GetOutcomeAt(a, nextOutcome)
          IN EarlierCalendarDay(outcome.mOutcomeDate, intake.mIntakeDate) =>
                /\ rcout' = Append(rcout, [mAnimalId |-> animal,
                                           message |-> WarnOutcomeOutOfOrder])
                /\ mImpoundTable' = mImpoundTable
                /\ nextIntake' = nextIntake
                /\ numIntakesRemaining' = numIntakesRemaining
                /\ nextOutcome' = nextOutcome + 1
                /\ numOutcomesRemaining' = numOutcomesRemaining - 1
                /\ pc' = "MergeAnimal"]_vars

(* An outcome was dropped as out of order after an intake had been paired. *)
C9_Witness ==
    \E id \in DOMAIN mAnimalMap :
        /\ Len(WarningsOf(id, WarnOutcomeOutOfOrder)) = 1
        /\ \E j \in 1..Len(RecordsOf(id)) :
              HasIntake(RecordsOf(id)[j]) /\ HasOutcome(RecordsOf(id)[j])

(* C10: for an animal with at least one intake, when outcomes remain after  *)
(* every intake is consumed, MergeAnimal prints 'Extra outcomes remaining   *)
(* at end.' exactly once and no remaining outcome is in any impound row.    *)
C10_ExtraOutcomesWarnedOnce ==
    /\ [][(pc = "MergeAnimal" /\ numIntakesRemaining = 0 /\ numOutcomesRemaining > 0
              /\ GetNumIntakes(mAnimalMap[animal]) >= 1) =>
            /\ rcout' = Append(rcout, [mAnimalId |-> animal,
                                       message |-> WarnExtraOutcomes])
            /\ mImpoundTable' = mImpoundTable
            /\ pc' # "MergeAnimal"]_vars
    /\ [](\A id \in DOMAIN mAnimalMap :
            LET a == mAnimalMap[id] IN
            (JustMerged(id) /\ GetNumIntakes(a) >= 1 /\ numOutcomesRemaining > 0) =>
                /\ Len(WarningsOf(id, WarnExtraOutcomes)) = 1
                /\ \A k \in (nextOutcome + 1)..Len(a.mOutcomeList) :
                      ~OutcomeEmitted(id, a.mOutcomeList[k]))

(* Two outcomes were left over for an animal that had an intake. *)
C10_Witness ==
    \E id \in DOMAIN mAnimalMap :
        /\ JustMerged(id)
        /\ GetNumIntakes(mAnimalMap[id]) >= 1
        /\ numOutcomesRemaining >= 2
        /\ Len(WarningsOf(id, WarnExtraOutcomes)) = 1

(* The events in a list, as a set. *)
EventsIn(list) == {list[k] : k \in 1..Len(list)}

(* C11: every impound row holds a real intake or a real outcome, never two  *)
(* placeholders, and each real event of a row is in the intake list or the  *)
(* outcome list of the animal the row names.                                *)
C11_RecordHoldsRealEvent ==
    \A k \in 1..Len(mImpoundTable) :
        LET r == mImpoundTable[k] IN
        /\ HasIntake(r) \/ HasOutcome(r)
        /\ r.mAnimalId \in DOMAIN mAnimalMap
        /\ HasIntake(r) => r.intake \in EventsIn(mAnimalMap[r.mAnimalId].mIntakeList)
        /\ HasOutcome(r) => r.outcome \in EventsIn(mAnimalMap[r.mAnimalId].mOutcomeList)

(* Rows of all three shapes were emitted: outcome only, paired, intake only. *)
C11_Witness ==
    /\ \E k \in 1..Len(mImpoundTable) : ~HasIntake(mImpoundTable[k])
    /\ \E k \in 1..Len(mImpoundTable) : ~HasOutcome(mImpoundTable[k])
    /\ \E k \in 1..Len(mImpoundTable) :
          HasIntake(mImpoundTable[k]) /\ HasOutcome(mImpoundTable[k])

(* C12: MergeAnimal terminates.  Every index it reads is inside the list it *)
(* reads, so no access throws; each iteration of the loop consumes an       *)
(* intake or an outcome; and a call that has started reaches the return     *)
(* with no intake remaining, whatever the timestamps and the warnings.      *)
C12_MergeAnimalTerminates ==
    /\ [](pc = "MergeAnimal" =>
            LET a == mAnimalMap[animal] IN
            /\ numIntakesRemaining >= 0 /\ numOutcomesRemaining >= 0
            /\ numIntakesRemaining > 0 => nextIntake < GetNumIntakes(a)
            /\ numOutcomesRemaining > 0 => nextOutcome < GetNumOutcomes(a))
    /\ [][(pc = "MergeAnimal" /\ pc' = "MergeAnimal") =>
            numIntakesRemaining' + numOutcomesRemaining'
                < numIntakesRemaining + numOutcomesRemaining]_vars
    /\ [][(pc = "MergeAnimal" /\ pc' # "MergeAnimal") => numIntakesRemaining = 0]_vars
    /\ (pc = "MergeAnimal") ~> (pc = "BuildImpoundTable" /\ numIntakesRemaining = 0)

(* A call returned after it had printed a warning of each kind but the      *)
(* last, or after it had skipped intakes.                                   *)
C12_Witness ==
    /\ pc = "BuildImpoundTable"
    /\ animal # NoAnimal
    /\ numIntakesRemaining = 0
    /\ \/ Len(WarningsOf(animal, WarnOutcomeOutOfOrder)) > 0
       \/ Len(WarningsOf(animal, WarnUnmatchedIntake)) > 0

(* The position of an event in a list that holds it once. *)
PositionIn(list, e) == CHOOSE k \in 1..Len(list) : list[k] = e

(* The step sorts the lists of an animal and starts MergeAnimal for it. *)
SortsAnimal == pc = "BuildImpoundTable" /\ pc' = "MergeAnimal"

IntakeRecordsOf(id) == SelectSeq(RecordsOf(id), HasIntake)

(* How many impound rows of the animal hold this intake. *)
TimesIntakeEmitted(id, intake) ==
    Cardinality({j \in 1..Len(RecordsOf(id)) : RecordsOf(id)[j].intake = intake})

(* C14: per animal, the rows that hold a real intake are as many as the     *)
(* animal's intakes minus the intakes skipped at an 'Intake not matched     *)
(* with outcome.' warning; a skipped intake is in no row; without that      *)
(* warning every intake is in exactly one row.                              *)
C14_IntakesEmittedOrSkipped ==
    /\ [][(pc = "MergeAnimal" /\ numOutcomesRemaining = 0 /\ numIntakesRemaining > 1) =>
            LET a == mAnimalMap[animal]
                n == GetNumIntakes(a)
                skipped == (nextIntake + 1)..(n - 1)
            IN /\ Cardinality(skipped) = numIntakesRemaining - 1
               /\ Len(IntakeRecordsOf(animal))' = n - Cardinality(skipped)
               /\ \A k \in skipped : ~IntakeEmitted(animal, a.mIntakeList[k])']_vars
    /\ [](\A id \in DOMAIN mAnimalMap :
            LET a == mAnimalMap[id]
                n == GetNumIntakes(a)
                skipped == {k \in 1..n : ~IntakeEmitted(id, a.mIntakeList[k])}
            IN Merged(id) =>
                  /\ Len(IntakeRecordsOf(id)) = n - Cardinality(skipped)
                  /\ \A k \in 1..n \ skipped : TimesIntakeEmitted(id, a.mIntakeList[k]) = 1
                  /\ skipped # {} => Len(WarningsOf(id, WarnUnmatchedIntake)) = 1
                  /\ Len(WarningsOf(id, WarnUnmatchedIntake)) = 0 =>
                        \A k \in 1..n : TimesIntakeEmitted(id, a.mIntakeList[k]) = 1)

(* An animal with two intakes and an early outcome was merged: the first    *)
(* intake was skipped with a warning and is in no row.                      *)
C14_Witness ==
    \E id \in DOMAIN mAnimalMap :
        LET a == mAnimalMap[id] IN
        /\ Merged(id)
        /\ GetNumIntakes(a) = 2
        /\ GetNumOutcomes(a) > 0
        /\ Len(WarningsOf(id, WarnUnmatchedIntake)) = 1
        /\ ~IntakeEmitted(id, a.mIntakeList[1])
        /\ Len(IntakeRecordsOf(id)) = 1

(* C15: for an animal with n >= 1 sorted intakes and n sorted outcomes in   *)
(* which the k-th outcome is never on an earlier calendar day than the k-th *)
(* intake, MergeAnimal emits exactly n rows, the k-th holding intake k and  *)
(* outcome k, and prints no warning.                                        *)
C15_AlignedListsPairInOrder ==
    \A id \in DOMAIN mAnimalMap :
        LET a == mAnimalMap[id]
            n == GetNumIntakes(a)
        IN (/\ Merged(id)
            /\ n >= 1
            /\ GetNumOutcomes(a) = n
            /\ \A k \in 1..n : ~EarlierCalendarDay(a.mOutcomeList[k].mOutcomeDate,
                                                   a.mIntakeList[k].mIntakeDate)) =>
              /\ RecordsOf(id) =
                    [k \in 1..n |-> ImpoundRow(id, a.mIntakeList[k], a.mOutcomeList[k])]
              /\ AllWarningsOf(id) = <<>>

(* Two intakes and two outcomes were paired in order, the first outcome at  *)
(* an earlier instant of its intake's day.                                  *)
C15_Witness ==
    \E id \in DOMAIN mAnimalMap :
        LET a == mAnimalMap[id] IN
        /\ Merged(id)
        /\ GetNumIntakes(a) = 2
        /\ GetNumOutcomes(a) = 2
        /\ a.mOutcomeList[1].mOutcomeDate < a.mIntakeList[1].mIntakeDate
        /\ \A k \in 1..2 : ~EarlierCalendarDay(a.mOutcomeList[k].mOutcomeDate,
                                               a.mIntakeList[k].mIntakeDate)
        /\ Len(RecordsOf(id)) = 2

(* C16: of two rows of one animal, row 1 arriving first with timestamp t1   *)
(* and row 2 with t2 > t1, the merged animal keeps row 1's name when row 1  *)
(* knows it and row 2 does not, takes row 2's color1 when both rows know    *)
(* it, and has the reference timestamp t2.                                  *)
C16_SecondRowNewer ==
    [][(ReadsRow /\ Len(rows) = 1) =>
          LET row2 == candidate'[1]
              id == row2.mAnimalId
          IN (id \in DOMAIN mAnimalMap /\ row2.mDateTime > mAnimalMap[id].mDateTime) =>
                LET row1 == mAnimalMap[id] IN
                /\ (row1.mName # NaString /\ row2.mName = NaString) =>
                        mAnimalMap'[id].mName = row1.mName
                /\ (row1.mColor1 # NaString /\ row2.mColor1 # NaString) =>
                        mAnimalMap'[id].mColor1 = row2.mColor1
                /\ mAnimalMap'[id].mDateTime = row2.mDateTime]_vars

(* Row 1 gave name and color1 "x" at time 1, row 2 gave color1 "y" and no   *)
(* name at time 2: the animal has name "x", color1 "y" and timestamp 2.     *)
C16_Witness ==
    /\ candidate # nullptr
    /\ Len(rows) = 2
    /\ LET row2 == candidate[1]
           a == mAnimalMap[row2.mAnimalId]
       IN /\ row2.mName = NaString
          /\ row2.mColor1 = "y"
          /\ row2.mDateTime = 2
          /\ accepted[row2.mAnimalId] = {1, 2}
          /\ a.mName = "x"
          /\ a.mColor1 = "y"
          /\ a.mDateTime = 2

(* The numbers of the rows read for an animal that carry an intake / an     *)
(* outcome, in arrival order.                                               *)
IntakeRowsOf(id) ==
    SelectSeq([n \in 1..Len(rows) |-> n],
              LAMBDA n : rows[n].animalId = id /\ rows[n].table \in {"intake", "impound"})

OutcomeRowsOf(id) ==
    SelectSeq([n \in 1..Len(rows) |-> n],
              LAMBDA n : rows[n].animalId = id /\ rows[n].table \in {"outcome", "impound"})

(* The events of those rows, in arrival order. *)
IntakesRead(id) ==
    [k \in 1..Len(IntakeRowsOf(id)) |->
        MakeIntake(rows[IntakeRowsOf(id)[k]].intakeDate, IntakeRowsOf(id)[k])]

OutcomesRead(id) ==
    [k \in 1..Len(OutcomeRowsOf(id)) |->
        MakeOutcome(rows[OutcomeRowsOf(id)[k]].outcomeDate, OutcomeRowsOf(id)[k])]

(* C17: until its lists are sorted, the registry entry under a key holds    *)
(* exactly the intakes and the outcomes of the rows read with that key, one *)
(* per row, in arrival order, duplicates included, also for the rows whose  *)
(* candidate was not newer than the entry; the entry is the only object     *)
(* that holds them, so every event read is in the registry.                 *)
C17_EntryHoldsEveryEventInArrivalOrder ==
    /\ \A id \in DOMAIN mAnimalMap \ visited :
          /\ mAnimalMap[id].mIntakeList = IntakesRead(id)
          /\ mAnimalMap[id].mOutcomeList = OutcomesRead(id)
    /\ \A n \in 1..Len(rows) :
          /\ rows[n].animalId \in DOMAIN mAnimalMap
          /\ rows[n].table \in {"intake", "impound"} =>
                MakeIntake(rows[n].intakeDate, n)
                    \in EventsIn(mAnimalMap[rows[n].animalId].mIntakeList)
          /\ rows[n].table \in {"outcome", "impound"} =>
                MakeOutcome(rows[n].outcomeDate, n)
                    \in EventsIn(mAnimalMap[rows[n].animalId].mOutcomeList)

(* Ingestion is over; one animal got two intakes with the same date, the    *)
(* second from a candidate that was not newer, and the other animal a row.  *)
C17_Witness ==
    /\ pc = "BuildImpoundTable"
    /\ visited = {}
    /\ DOMAIN mAnimalMap = KeyIds
    /\ \E id \in KeyIds :
          /\ Len(mAnimalMap[id].mIntakeList) = 2
          /\ mAnimalMap[id].mIntakeList[1].mIntakeDate = mAnimalMap[id].mIntakeList[2].mIntakeDate
          /\ Cardinality(accepted[id]) = 1

(* The intake and outcome of each impound row of an animal, in order. *)
EventsOfRecords(id) ==
    [k \in 1..Len(RecordsOf(id)) |->
        [intake |-> RecordsOf(id)[k].intake, outcome |-> RecordsOf(id)[k].outcome]]

(* The messages printed for an animal, in order. *)
MessagesOf(id) == [k \in 1..Len(AllWarningsOf(id)) |-> AllWarningsOf(id)[k].message]

(* The dates of a list of intakes / outcomes / impound rows, in order. *)
IntakeDates(list) == [k \in 1..Len(list) |-> list[k].mIntakeDate]

OutcomeDates(list) == [k \in 1..Len(list) |-> list[k].mOutcomeDate]

RecordDates(id) ==
    [k \in 1..Len(RecordsOf(id)) |->
        <<RecordsOf(id)[k].intake.mIntakeDate, RecordsOf(id)[k].outcome.mOutcomeDate>>]

(* C18: the impound rows and the warnings of an animal depend on its own    *)
(* intake and outcome lists only.  They are what MergeAnimal computes from  *)
(* the two sorted lists, whichever other animals are in the registry and    *)
(* whatever was emitted for them before; two animals whose lists have the   *)
(* same dates get rows with the same dates and the same messages; and a     *)
(* step of MergeAnimal for one animal changes no row, no warning and no     *)
(* list of another.                                                         *)
C18_RecordsDependOnOwnListsOnly ==
    /\ [](\A id \in DOMAIN mAnimalMap :
            Merged(id) =>
                /\ EventsOfRecords(id) = MergeAnimalOf(mAnimalMap[id]).records
                /\ MessagesOf(id) = MergeAnimalOf(mAnimalMap[id]).warnings)
    /\ [](\A id1, id2 \in DOMAIN mAnimalMap :
            (/\ Merged(id1) /\ Merged(id2)
             /\ IntakeDates(mAnimalMap[id1].mIntakeList) = IntakeDates(mAnimalMap[id2].mIntakeList)
             /\ OutcomeDates(mAnimalMap[id1].mOutcomeList)
                    = OutcomeDates(mAnimalMap[id2].mOutcomeList)) =>
                /\ RecordDates(id1) = RecordDates(id2)
                /\ MessagesOf(id1) = MessagesOf(id2))
    /\ [][pc = "MergeAnimal" =>
            \A id \in DOMAIN mAnimalMap \ {animal} :
                /\ RecordsOf(id)' = RecordsOf(id)
                /\ AllWarningsOf(id)' = AllWarningsOf(id)
                /\ mAnimalMap'[id] = mAnimalMap[id]]_vars

(* Both animals were merged: the first got a row, the second has an intake  *)
(* and an outcome of an earlier day, emitted alone and without a warning.   *)
C18_Witness ==
    /\ DOMAIN mAnimalMap = KeyIds
    /\ Merged(1) /\ Merged(2)
    /\ Len(RecordsOf(1)) > 0
    /\ GetNumIntakes(mAnimalMap[2]) = 1
    /\ GetNumOutcomes(mAnimalMap[2]) = 1
    /\ EarlierCalendarDay(mAnimalMap[2].mOutcomeList[1].mOutcomeDate,
                          mAnimalMap[2].mIntakeList[1].mIntakeDate)
    /\ Len(RecordsOf(2)) = 2
    /\ AllWarningsOf(2) = <<>>

(* The identity keys of the rows read so far. *)
KeysRead == {rows[n].animalId : n \in 1..Len(rows)}

IsPrefix(s, t) == Len(s) <= Len(t) /\ \A k \in 1..Len(s) : s[k] = t[k]

(* C19: the registry has exactly one entry for each distinct key read.  The *)
(* first candidate of a key is inserted as the entry; a later candidate of  *)
(* that key adds no entry and does not take the entry's place: the entry    *)
(* keeps its events and its timestamp does not go back.  The animal table   *)
(* gets exactly one row for each distinct key.                              *)
C19_OneEntryPerKey ==
    /\ [](/\ DOMAIN mAnimalMap = KeysRead
          /\ \A id \in DOMAIN mAnimalMap : mAnimalMap[id].mAnimalId = id)
    /\ [][ReadsRow =>
            LET c == candidate'[1]
                id == c.mAnimalId
            IN IF id \in DOMAIN mAnimalMap
               THEN /\ DOMAIN mAnimalMap' = DOMAIN mAnimalMap
                    /\ IsPrefix(mAnimalMap[id].mIntakeList, mAnimalMap'[id].mIntakeList)
                    /\ IsPrefix(mAnimalMap[id].mOutcomeList, mAnimalMap'[id].mOutcomeList)
                    /\ mAnimalMap'[id].mDateTime >= mAnimalMap[id].mDateTime
                    /\ \A k \in DOMAIN mAnimalMap \ {id} : mAnimalMap'[k] = mAnimalMap[k]
               ELSE /\ DOMAIN mAnimalMap' = DOMAIN mAnimalMap \cup {id}
                    /\ \A attr \in AttrNames : mAnimalMap'[id][attr] = c[attr]
                    /\ mAnimalMap'[id].mDateTime = c.mDateTime
                    /\ \A k \in DOMAIN mAnimalMap : mAnimalMap'[k] = mAnimalMap[k]]_vars
    /\ [](IF pc = "done"
          THEN /\ Len(mAnimalTable) = Cardinality(KeysRead)
               /\ \A id \in KeysRead :
                     Cardinality({k \in 1..Len(mAnimalTable) :
                                     mAnimalTable[k].mAnimalId = id}) = 1
          ELSE mAnimalTable = <<>>)

(* The build is done: three rows were read for two keys, two of them for    *)
(* one key, and the animal table has two rows.                              *)
C19_Witness ==
    /\ pc = "done"
    /\ Len(rows) >= 3
    /\ KeysRead = KeyIds
    /\ Len(mAnimalTable) = 2

(* The builder is in an Ingest* loop / past every Ingest* loop. *)
Ingesting ==
    pc \in {"IngestAtxIntakes", "IngestAtxOutcomes",
            "IngestSacOpenImpounds", "IngestSacCpraImpounds"}

IntakesAscending(list) ==
    \A k \in 1..(Len(list) - 1) : list[k].mIntakeDate <= list[k + 1].mIntakeDate

OutcomesAscending(list) ==
    \A k \in 1..(Len(list) - 1) : list[k].mOutcomeDate <= list[k + 1].mOutcomeDate

TimesOutcomeEmitted(id, outcome) ==
    Cardinality({j \in 1..Len(RecordsOf(id)) : RecordsOf(id)[j].outcome = outcome})

(* C21: during MergeAnimal the outcome cursor never moves back; an          *)
(* iteration of the loop that examines an outcome advances the cursor by    *)
(* one and lowers the count of outcomes remaining by one, whether the       *)
(* outcome is paired, emitted alone or dropped, so the outcomes examined    *)
(* are those before the cursor, each examined once; and every outcome of    *)
(* an animal is in at most one impound row.                                 *)
C21_OutcomeCursorOnlyForward ==
    /\ [][pc = "MergeAnimal" => nextOutcome' >= nextOutcome]_vars
    /\ [][AtNextOutcome =>
            /\ nextOutcome' = nextOutcome + 1
            /\ numOutcomesRemaining' = numOutcomesRemaining - 1
            /\ \A j \in (Len(mImpoundTable) + 1)..Len(mImpoundTable') :
                  HasOutcome(mImpoundTable'[j]) =>
                      mImpoundTable'[j].outcome = GetOutcomeAt(mAnimalMap[animal], nextOutcome)]_vars
    /\ [][(pc = "MergeAnimal" /\ ~AtNextOutcome) => nextOutcome' = nextOutcome]_vars
    /\ [](\A id \in DOMAIN mAnimalMap :
            \A k \in 1..GetNumOutcomes(mAnimalMap[id]) :
                TimesOutcomeEmitted(id, mAnimalMap[id].mOutcomeList[k]) <= 1)
    /\ [](pc = "MergeAnimal" =>
            \A k \in (nextOutcome + 1)..GetNumOutcomes(mAnimalMap[animal]) :
                ~OutcomeEmitted(animal, mAnimalMap[animal].mOutcomeList[k]))

(* The cursor passed two outcomes: one was emitted alone or paired, one     *)
(* was dropped with a warning.                                              *)
C21_Witness ==
    /\ pc = "MergeAnimal"
    /\ nextOutcome = 2
    /\ Len(WarningsOf(animal, WarnOutcomeOutOfOrder)) = 1
    /\ OutcomeEmitted(animal, mAnimalMap[animal].mOutcomeList[1])

(* The impound row has a real intake and a placeholder outcome. *)
IntakeOnly(r) == HasIntake(r) /\ ~HasOutcome(r)

(* The step appends an intake-only row to the impound table. *)
EmitsIntakeOnly ==
    /\ Len(mImpoundTable') = Len(mImpoundTable) + 1
    /\ IntakeOnly(mImpoundTable'[Len(mImpoundTable')])

(* C22: an intake-only row is emitted only by MergeAnimal in a state with   *)
(* no outcome remaining; when exactly one intake remains then, it is the    *)
(* row's intake and nothing is printed; an animal gets at most one          *)
(* intake-only row, and that row is the last of the animal's rows.          *)
C22_IntakeOnlyRecordIsLast ==
    /\ [][EmitsIntakeOnly => (pc = "MergeAnimal" /\ numOutcomesRemaining = 0)]_vars
    /\ [][(pc = "MergeAnimal" /\ numOutcomesRemaining = 0 /\ numIntakesRemaining = 1) =>
            /\ mImpoundTable' =
                  Append(mImpoundTable,
                         ImpoundRow(animal, GetIntakeAt(mAnimalMap[animal], nextIntake),
                                    NullOutcome))
            /\ rcout' = rcout
            /\ numIntakesRemaining' = 0]_vars
    /\ [](\A id \in DOMAIN mAnimalMap :
            LET recs == RecordsOf(id) IN
            /\ Len(SelectSeq(recs, IntakeOnly)) <= 1
            /\ \A k \in 1..Len(recs) : IntakeOnly(recs[k]) => k = Len(recs))

(* An animal with two intakes and one outcome was merged without a          *)
(* warning: a paired row, then the intake-only row.                         *)
C22_Witness ==
    \E id \in DOMAIN mAnimalMap :
        /\ Merged(id)
        /\ AllWarningsOf(id) = <<>>
        /\ Len(RecordsOf(id)) = 2
        /\ HasIntake(RecordsOf(id)[1]) /\ HasOutcome(RecordsOf(id)[1])
        /\ IntakeOnly(RecordsOf(id)[2])

(* The timestamp of the candidate an Ingest* loop builds from a row: the    *)
(* outcome date in IngestAtxOutcomes, the intake date in the other loops.   *)
CandidateTime(row) == IF row.table = "outcome" THEN row.outcomeDate ELSE row.intakeDate

(* The timestamps of all the candidates read for a key. *)
CandidateTimesRead(id) ==
    {CandidateTime(rows[n]) : n \in {m \in 1..Len(rows) : rows[m].animalId = id}}

(* The candidates of the registry specification for one key, and the entry  *)
(* of the key after AddAnimal was called for a first and then for a second  *)
(* candidate.                                                               *)
RegistryCandidates ==
    {MakeCandidate(1, t, attrs) : t \in RegistryTimes, attrs \in RegistryAttrs}

EntryAfter(first, second) == AddAnimal(AddAnimal(<<>>, first), second)[1]

(* Any two candidates give the same reference timestamp in either order. *)
TimestampSameInEitherOrder ==
    \A c1, c2 \in RegistryCandidates :
        EntryAfter(c1, c2).mDateTime = EntryAfter(c2, c1).mDateTime

(* Some two candidates give different attributes in the two orders. *)
AttributesDifferInSomeOrder ==
    \E c1, c2 \in RegistryCandidates :
        \E attr \in AttrNames : EntryAfter(c1, c2)[attr] # EntryAfter(c2, c1)[attr]

(* C23: the reference timestamp of a registry entry is the greatest         *)
(* timestamp among all the candidates read for its key, merged or ignored;  *)
(* two candidates give the same reference timestamp in either arrival       *)
(* order, while for some two candidates the attributes of the entry differ  *)
(* between the two orders.                                                  *)
C23_TimestampIsMaxOfAllCandidates ==
    /\ \A id \in DOMAIN mAnimalMap : mAnimalMap[id].mDateTime = MaxOf(CandidateTimesRead(id))
    /\ TimestampSameInEitherOrder
    /\ AttributesDifferInSomeOrder

(* The newer row arrived first without a name; the older row, which knows   *)
(* the name, arrived second and was ignored: the entry has the newer        *)
(* timestamp and no name.  In the other order it would have the name.       *)
C23_Witness ==
    /\ candidate # nullptr
    /\ Len(rows) = 2
    /\ LET c == candidate[1]
           a == mAnimalMap[c.mAnimalId]
       IN /\ c.mDateTime < a.mDateTime
          /\ c.mName # NaString
          /\ a.mName = NaString
          /\ a.mDateTime = MaxOf(CandidateTimesRead(c.mAnimalId))
          /\ EntryAfter(c, a).mName = c.mName

(* The 0-based index is inside the list: vector::at does not throw. *)
InRange(i, list) == 0 <= i /\ i < Len(list)

(* C24: from the entry of MergeAnimal to its return, nextIntake +           *)
(* numIntakesRemaining is the animal's number of intakes, nextOutcome +     *)
(* numOutcomesRemaining its number of outcomes, and no counter is           *)
(* negative; every index handed to GetIntakeAt or GetOutcomeAt (the cursor  *)
(* in the loop, the last position at the warning, the outcome cursor after  *)
(* the loop) is inside its list.                                            *)
C24_CursorsAndCountersAgree ==
    (animal # NoAnimal) =>
        LET a == mAnimalMap[animal] IN
        /\ nextIntake + numIntakesRemaining = GetNumIntakes(a)
        /\ nextOutcome + numOutcomesRemaining = GetNumOutcomes(a)
        /\ numIntakesRemaining >= 0 /\ numOutcomesRemaining >= 0
        /\ nextIntake >= 0 /\ nextOutcome >= 0
        /\ pc = "MergeAnimal" =>
              /\ numIntakesRemaining > 0 => InRange(nextIntake, a.mIntakeList)
              /\ (numIntakesRemaining > 1 /\ numOutcomesRemaining = 0) =>
                    InRange(GetNumIntakes(a) - 1, a.mIntakeList)
              /\ (numIntakesRemaining > 0 /\ numOutcomesRemaining # 0) =>
                    InRange(nextOutcome, a.mOutcomeList)
              /\ (numIntakesRemaining = 0 /\ numOutcomesRemaining > 0
                    /\ GetNumIntakes(a) = 0) => InRange(nextOutcome, a.mOutcomeList)

(* A call returned after an early outcome was passed and the warning        *)
(* branch had moved the intake cursor to the end of a list of two.          *)
C24_Witness ==
    /\ animal # NoAnimal
    /\ pc = "BuildImpoundTable"
    /\ Len(WarningsOf(animal, WarnUnmatchedIntake)) = 1
    /\ nextIntake = 2 /\ numIntakesRemaining = 0
    /\ nextOutcome = 1 /\ numOutcomesRemaining = 0
    /\ Len(RecordsOf(animal)) = 2

(* C25: among the impound rows of an animal that has an intake, every       *)
(* outcome-only row comes before every row that holds an intake: once a     *)
(* row with an intake, paired or alone, has been emitted for the animal,    *)
(* no outcome-only row is emitted for it.                                   *)
C25_OutcomeOnlyBeforeAnyIntake ==
    /\ [](\A id \in DOMAIN mAnimalMap :
            GetNumIntakes(mAnimalMap[id]) >= 1 =>
                \A j, k \in 1..Len(RecordsOf(id)) :
                    (HasIntake(RecordsOf(id)[j]) /\ ~HasIntake(RecordsOf(id)[k])) => k < j)
    /\ [][(pc = "MergeAnimal" /\ Len(IntakeRecordsOf(animal)) > 0) =>
            \A k \in (Len(mImpoundTable) + 1)..Len(mImpoundTable') :
                HasIntake(mImpoundTable'[k])]_vars

(* An outcome of an earlier day was emitted alone and the next outcome was  *)
(* then paired with the first intake.                                       *)
C25_Witness ==
    \E id \in DOMAIN mAnimalMap :
        /\ Merged(id)
        /\ Len(RecordsOf(id)) >= 2
        /\ ~HasIntake(RecordsOf(id)[1])
        /\ HasIntake(RecordsOf(id)[2]) /\ HasOutcome(RecordsOf(id)[2])

(* C26: for each animal, 'Intake not matched with outcome.' is printed at   *)
(* most once, 'Extra outcomes remaining at end.' is printed at most once,   *)
(* and the two are never both printed: after the first of them nothing      *)
(* more is printed for the animal.                                          *)
C26_UnmatchedAndExtraExclusive ==
    /\ [](\A id \in DOMAIN mAnimalMap :
            /\ Len(WarningsOf(id, WarnUnmatchedIntake)) <= 1
            /\ Len(WarningsOf(id, WarnExtraOutcomes)) <= 1
            /\ Len(WarningsOf(id, WarnUnmatchedIntake)) = 0
                  \/ Len(WarningsOf(id, WarnExtraOutcomes)) = 0)
    /\ [][\A id \in DOMAIN mAnimalMap :
            (Len(WarningsOf(id, WarnUnmatchedIntake)) = 1
                \/ Len(WarningsOf(id, WarnExtraOutcomes)) = 1) =>
                    AllWarningsOf(id)' = AllWarningsOf(id)]_vars

(* An animal with two intakes and two outcomes of an earlier day was        *)
(* merged: the intakes were left unmatched, with one warning, and no        *)
(* outcome was left over.                                                   *)
C26_Witness ==
    \E id \in DOMAIN mAnimalMap :
        /\ Merged(id)
        /\ GetNumIntakes(mAnimalMap[id]) = 2
        /\ GetNumOutcomes(mAnimalMap[id]) = 2
        /\ Len(WarningsOf(id, WarnUnmatchedIntake)) = 1
        /\ Len(WarningsOf(id, WarnExtraOutcomes)) = 0

(* The identity keys of the rows of the impound table. *)
ImpoundKeys == {mImpoundTable[k].mAnimalId : k \in 1..Len(mImpoundTable)}

(* C27: every animal in the registry has an intake or an outcome, and once  *)
(* MergeAnimal has returned for it it has an impound row: a row with an     *)
(* intake if it has an intake, an outcome-only row if it has none.  When    *)
(* the build is done, every key of the animal table is a key of the         *)
(* impound table.                                                           *)
C27_EveryAnimalHasImpoundRecord ==
    /\ \A id \in DOMAIN mAnimalMap :
          LET a == mAnimalMap[id] IN
          /\ GetNumIntakes(a) + GetNumOutcomes(a) >= 1
          /\ Merged(id) =>
                /\ Len(RecordsOf(id)) >= 1
                /\ GetNumIntakes(a) >= 1 => Len(IntakeRecordsOf(id)) >= 1
                /\ GetNumIntakes(a) = 0 =>
                      \E k \in 1..Len(RecordsOf(id)) :
                          ~HasIntake(RecordsOf(id)[k]) /\ HasOutcome(RecordsOf(id)[k])
    /\ pc = "done" =>
          /\ \A k \in 1..Len(mAnimalTable) : mAnimalTable[k].mAnimalId \in ImpoundKeys
          /\ DOMAIN mAnimalMap \subseteq ImpoundKeys

(* The build is done for two animals: one has outcomes only, one got a      *)
(* warning; both are in both tables.                                        *)
C27_Witness ==
    /\ pc = "done"
    /\ Len(mAnimalTable) = 2
    /\ ImpoundKeys = KeyIds
    /\ \E id \in KeyIds : GetNumIntakes(mAnimalMap[id]) = 0
    /\ \E id \in KeyIds : Len(AllWarningsOf(id)) > 0

=============================================================================
